---- MODULE Spec2Model ----
(***************************************************************************)
(* Exit Interview Intelligence Platform.                                   *)
(*                                                                         *)
(*   pre_analyze.py  the Analyzer: a batch script that sends every         *)
(*                   transcript of data.json to the completion service     *)
(*                   and writes analyzed_data.json.                        *)
(*   app.py          the Insights Service: a Streamlit script, executed    *)
(*                   top to bottom on every rerun of the page; only        *)
(*                   st.session_state and the st.cache_data cache survive  *)
(*                   a rerun.                                              *)
(*                                                                         *)
(* An optional JSON value / Python None is written as a sequence of        *)
(* length 0 (absent, None, NaN) or 1 (the value).                          *)
(***************************************************************************)
EXTENDS Integers, Sequences, FiniteSets, TLC

\* ------------------------------------------------------------------ bounds
MaxInterviews == 3
MaxRecords == 2
MaxTurns == 6

\* ------------------------------------------------------- data of the model
Sentiments == {"Positive", "Negative", "Neutral", "Mixed"}

InterviewFields ==
  {"employeeID", "employeeName", "designation", "department", "exitReason",
   "interviewTranscript"}

SampleInterviews ==
  { [employeeID |-> "E1", employeeName |-> "Ann", designation |-> "Engineer",
     department |-> "Engineering", exitReason |-> "Growth",
     interviewTranscript |-> "T1"],
    [employeeID |-> "E1", employeeName |-> "Ann", designation |-> "Analyst",
     department |-> "Finance", exitReason |-> "Pay",
     interviewTranscript |-> "T2"],
    [employeeID |-> "E2", employeeName |-> "Bob", designation |-> "Manager",
     department |-> "Engineering", exitReason |-> "Relocation",
     interviewTranscript |-> "T3"],
    [employeeID |-> "E3", employeeName |-> "Cy", designation |-> "Engineer",
     department |-> "Finance", exitReason |-> "Pay",
     interviewTranscript |-> ""] }

\* JSON objects the completion service can put in message.content; nothing
\* in the request constrains the values beyond "a JSON object".
EmptyObject ==
  [overallSentiment |-> <<>>, keyThemes |-> <<>>, summary |-> <<>>]

SampleObjects ==
  { [overallSentiment |-> <<"Negative">>, keyThemes |-> << <<"Pay">> >>,
     summary |-> <<"S1">>],
    [overallSentiment |-> <<"Positive">>, keyThemes |-> << <<"Growth", "Pay">> >>,
     summary |-> <<"S2">>],
    [overallSentiment |-> <<"Very Negative">>, keyThemes |-> << <<"Pay">> >>,
     summary |-> <<"S3">>],
    EmptyObject }

\* What one call of the completion service does: raise, answer with text
\* json.loads rejects, or answer with a JSON object.
ServiceOutcomes ==
  { [kind |-> "raise", json |-> EmptyObject],
    [kind |-> "badjson", json |-> EmptyObject] }
  \cup { [kind |-> "json", json |-> o] : o \in SampleObjects }

SeqsUpTo(S, n) == UNION { [1..k -> S] : k \in 0..n }

VARIABLES
  \* environment
  stBound,              \* the name `st` resolves when pre_analyze.py line 14 runs
  secretPresent,        \* st.secrets holds OPENAI_API_KEY
  data_json,            \* content of data.json
  analyzed_file,        \* analyzed_data.json: [exists, data]
  \* pre_analyze.py
  apc,                  \* position of the script; "off" when it is not the launched program
  aerror,               \* exception that ended the process, "" if none
  interviews_data, idx, analyzed_interviews,
  nEmpty,               \* interviews passed over for a falsy transcript
  nFailed,              \* interviews for which analyze_interview returned None
  aCredFound,           \* line 14 found the credential
  aDataRead,            \* data.json has been read
  \* app.py
  pc,                   \* position of the current script run; "idle" between runs
  cache,                \* st.cache_data entry of load_data: <<>> or <<value>>
  df,                   \* this run's df: [none, rows]
  runError,             \* exception that ended the last script run: [type, line]
  kpi,                  \* the three st.metric values of tab 1, <<>> before they are shown
  selection,            \* widget state of the selectbox, <<>> before the first choice
  optionsShown,         \* options of the selectbox as last rendered
  selected_interview,   \* row rendered in tab 2, <<>> if none
  chatShown,            \* the last run rendered st.chat_input
  prompt,               \* value st.chat_input returns in this run: <<>> (None) or <<text>>
  messages,             \* st.session_state.messages; <<>> while the key is absent
  \* history of the session, read by the properties only
  credFound,            \* line 31 found the credential
  fileRead,             \* load_data has read analyzed_data.json
  nSuccess, nFailure,   \* converse calls completed / failed so far
  lastCall,             \* "none", "pending", "success", "failure"
  callBase, callInput,  \* history and input at the start of the latest converse call
  attemptBase, attemptFails  \* history before, and failures in, the current run of
                             \* consecutive attempts with the same input

envvars == <<stBound, secretPresent, data_json, analyzed_file>>

avars == <<apc, aerror, interviews_data, idx, analyzed_interviews, nEmpty,
           nFailed, aCredFound, aDataRead>>

appvars == <<pc, cache, df, runError, kpi, selection, optionsShown,
             selected_interview, chatShown, prompt, messages, credFound,
             fileRead, nSuccess, nFailure, lastCall, callBase, callInput,
             attemptBase, attemptFails>>

vars == <<envvars, avars, appvars>>

NoFile == [exists |-> FALSE, data |-> <<>>]

\* ----------------------------------------------------------- pre_analyze.py
\* Python truthiness of a transcript string.
TranscriptTruthy(t) == t # ""

\* Python truthiness of analyze_interview's result: None and {} are falsy.
ResultTruthy(r) == r # <<>> /\ r[1] # EmptyObject

\* analyze_interview: the try block returns json.loads(content); every
\* exception is caught, printed, and None is returned.
analyze_interview(outcome) ==
  IF outcome.kind = "json" THEN <<outcome.json>> ELSE <<>>

\* {**interview, "analysis": analysis_result}
Combine(interview, analysis) ==
  [employeeID |-> interview.employeeID,
   employeeName |-> interview.employeeName,
   designation |-> interview.designation,
   department |-> interview.department,
   exitReason |-> interview.exitReason,
   interviewTranscript |-> interview.interviewTranscript,
   analysis |-> analysis]

\* Variant: the new record is put in front of the list.
PrependRecord(out, rec) == <<rec>> \o out

\* analyzed_interviews.append(combined_data)
AppendRecord(out, rec) == Append(out, rec)

\* The process before its first statement.
AnalyzerFresh ==
  /\ aerror = ""
  /\ interviews_data = <<>>
  /\ idx = 0
  /\ analyzed_interviews = <<>>
  /\ nEmpty = 0
  /\ nFailed = 0
  /\ aCredFound = FALSE
  /\ aDataRead = FALSE

\* line 14: openai.api_key = st.secrets["OPENAI_API_KEY"].  The file never
\* imports streamlit, so `st` resolves only if the namespace the script is
\* executed in already binds it; otherwise NameError ends the process.
ModuleSetupNameError ==
  /\ apc = "module"
  /\ ~stBound
  /\ apc' = "crashed"
  /\ aerror' = "NameError"
  /\ UNCHANGED appvars
  /\ UNCHANGED <<stBound, secretPresent, data_json, analyzed_file,
                 interviews_data, idx, analyzed_interviews, nEmpty, nFailed,
                 aCredFound, aDataRead>>

ModuleSetupKeyError ==
  /\ apc = "module"
  /\ stBound
  /\ ~secretPresent
  /\ apc' = "crashed"
  /\ aerror' = "KeyError"
  /\ UNCHANGED appvars
  /\ UNCHANGED <<stBound, secretPresent, data_json, analyzed_file,
                 interviews_data, idx, analyzed_interviews, nEmpty, nFailed,
                 aCredFound, aDataRead>>

ModuleSetup ==
  /\ apc = "module"
  /\ stBound
  /\ secretPresent
  /\ apc' = "main"
  /\ aCredFound' = TRUE
  /\ UNCHANGED appvars
  /\ UNCHANGED <<stBound, secretPresent, data_json, analyzed_file, aerror,
                 interviews_data, idx, analyzed_interviews, nEmpty, nFailed,
                 aDataRead>>

\* main, lines 59-64: load data.json, start with an empty output list.
MainLoad ==
  /\ apc = "main"
  /\ interviews_data' = data_json
  /\ aDataRead' = TRUE
  /\ analyzed_interviews' = <<>>
  /\ idx' = 1
  /\ apc' = "loop"
  /\ UNCHANGED appvars
  /\ UNCHANGED <<stBound, secretPresent, data_json, analyzed_file, aerror,
                 nEmpty, nFailed, aCredFound>>

\* lines 67-69: an interview whose transcript is falsy is passed over.
MainSkipEmpty ==
  /\ apc = "loop"
  /\ idx <= Len(interviews_data)
  /\ ~TranscriptTruthy(interviews_data[idx].interviewTranscript)
  /\ nEmpty' = nEmpty + 1
  /\ idx' = idx + 1
  /\ UNCHANGED appvars
  /\ UNCHANGED <<stBound, secretPresent, data_json, analyzed_file, apc, aerror,
                 interviews_data, analyzed_interviews, nFailed, aCredFound,
                 aDataRead>>

\* lines 67-74: analyze the transcript; keep the record if the result is truthy.
MainAnalyze ==
  /\ apc = "loop"
  /\ idx <= Len(interviews_data)
  /\ TranscriptTruthy(interviews_data[idx].interviewTranscript)
  /\ \E outcome \in ServiceOutcomes :
       LET analysis_result == analyze_interview(outcome) IN
         /\ analyzed_interviews' =
              IF ResultTruthy(analysis_result)
              THEN AppendRecord(analyzed_interviews,
                                Combine(interviews_data[idx], analysis_result[1]))
              ELSE analyzed_interviews
         /\ nFailed' = IF analysis_result = <<>> THEN nFailed + 1 ELSE nFailed
  /\ idx' = idx + 1
  /\ UNCHANGED appvars
  /\ UNCHANGED <<stBound, secretPresent, data_json, analyzed_file, apc, aerror,
                 interviews_data, nEmpty, aCredFound, aDataRead>>

\* lines 76-80: json.dump replaces analyzed_data.json wholesale.
MainDump ==
  /\ apc = "loop"
  /\ idx > Len(interviews_data)
  /\ analyzed_file' = [exists |-> TRUE, data |-> analyzed_interviews]
  /\ apc' = "done"
  /\ UNCHANGED appvars
  /\ UNCHANGED <<stBound, secretPresent, data_json, aerror, interviews_data,
                 idx, analyzed_interviews, nEmpty, nFailed, aCredFound,
                 aDataRead>>

\* -------------------------------------------------------------------- app.py
UserInputs == {"q1", "q2"}
Replies == {"a1"}
Greeting == "Hello! How can I help you analyze the exit interview data today?"

\* The files an Analyzer run can leave behind: any sequence of records that
\* main appends (a truthy transcript combined with a truthy result).
EnrichedSamples ==
  { Combine(i, o) : i \in { x \in SampleInterviews :
                              TranscriptTruthy(x.interviewTranscript) },
                    o \in SampleObjects \ {EmptyObject} }

AnalyzedFiles ==
  {NoFile} \cup
  { [exists |-> TRUE, data |-> c] : c \in SeqsUpTo(EnrichedSamples, MaxRecords) }

NoError == [type |-> "", line |-> 0]
Raised(t, l) == [type |-> t, line |-> l]

\* One row of pd.json_normalize(data, sep='_'): the nested analysis object is
\* flattened into analysis_<key> columns; a key the object lacks is NaN.
NormalizeRow(rec) ==
  [employeeID |-> rec.employeeID,
   employeeName |-> rec.employeeName,
   designation |-> rec.designation,
   department |-> rec.department,
   exitReason |-> rec.exitReason,
   interviewTranscript |-> rec.interviewTranscript,
   analysis_overallSentiment |-> rec.analysis.overallSentiment,
   analysis_keyThemes |-> rec.analysis.keyThemes,
   analysis_summary |-> rec.analysis.summary]

json_normalize(data) == [i \in 1..Len(data) |-> NormalizeRow(data[i])]

\* A column exists iff some record carries the key (there are no columns at
\* all when data is []).
HasSentimentColumn(rows) ==
  \E i \in 1..Len(rows) : rows[i].analysis_overallSentiment # <<>>
HasThemesColumn(rows) ==
  \E i \in 1..Len(rows) : rows[i].analysis_keyThemes # <<>>
HasSummaryColumn(rows) ==
  \E i \in 1..Len(rows) : rows[i].analysis_summary # <<>>

\* load_data's body: the DataFrame, or None when the file is not found.
load_data(file) ==
  IF file.exists
  THEN [none |-> FALSE, rows |-> json_normalize(file.data)]
  ELSE [none |-> TRUE, rows |-> <<>>]

\* line 51: df[df['analysis_overallSentiment'] == 'Negative'].shape[0]
neg_sentiment_count(rows) ==
  Cardinality({ i \in 1..Len(rows) :
                  rows[i].analysis_overallSentiment = <<"Negative">> })

\* lines 52-53: (count / len(df)) * 100 shown with one decimal; kept in
\* tenths of a percent, rounded to nearest.
neg_sentiment_perc(rows) ==
  (2000 * neg_sentiment_count(rows) + Len(rows)) \div (2 * Len(rows))

\* df['analysis_keyThemes'].explode(): the lists laid end to end (NaN and
\* empty lists give NaN, which value_counts drops).
RECURSIVE Explode(_)
Explode(rows) ==
  IF rows = <<>> THEN <<>>
  ELSE (IF Head(rows).analysis_keyThemes = <<>> THEN <<>>
        ELSE Head(rows).analysis_keyThemes[1]) \o Explode(Tail(rows))

ThemeCount(themes, t) == Cardinality({ i \in 1..Len(themes) : themes[i] = t })

\* value_counts().idxmax(): the most frequent label, the first encountered
\* among equals.
top_theme(themes) ==
  themes[CHOOSE i \in 1..Len(themes) :
           /\ \A j \in 1..Len(themes) :
                ThemeCount(themes, themes[j]) <= ThemeCount(themes, themes[i])
           /\ \A j \in 1..(i - 1) :
                ThemeCount(themes, themes[j]) < ThemeCount(themes, themes[i])]

\* line 103: employeeName + " (" + employeeID + ")"
display_name(row) == row.employeeName \o " (" \o row.employeeID \o ")"

Options(rows) == [i \in 1..Len(rows) |-> display_name(rows[i])]

\* st.selectbox: the stored choice while it is among the options, else the
\* first option; None when there are no options.
selectbox(options, state) ==
  IF state # <<>> /\ \E i \in 1..Len(options) : options[i] = state[1]
  THEN state
  ELSE IF options = <<>> THEN <<>> ELSE <<options[1]>>

Matches(rows, shown) ==
  { i \in 1..Len(rows) : shown # <<>> /\ display_name(rows[i]) = shown[1] }

\* line 109: df[df['display_name'] == selected].iloc[0], the first matching
\* row (IndexError when nothing matches).
LookupFirst(rows, shown) ==
  LET m == Matches(rows, shown) IN
    IF m = {} THEN <<>>
    ELSE <<rows[CHOOSE i \in m : \A j \in m : i <= j]>>

Turn(role, text, data) == [role |-> role, content |-> [text |-> text, data |-> data]]

UserTurn(text) == Turn("user", text, <<>>)
AssistantTurn(text) == Turn("assistant", text, <<>>)

\* lines 152-169: the instruction template around df.to_json(orient='records');
\* df carries the display_name column added at line 103.
SYSTEM_PROMPT(rows) ==
  Turn("system", "SYSTEM_PROMPT",
       [i \in 1..Len(rows) |-> <<display_name(rows[i]), rows[i]>>])

\* Variant: the history is created on every run of the script.
NeedsInitAlways(msgs) == TRUE

\* lines 172-176
NeedsInit(msgs) == msgs = <<>>
InitialMessages(rows) == <<SYSTEM_PROMPT(rows), AssistantTurn(Greeting)>>

\* Variant: a resubmitted text is not recorded a second time.
AppendUserOnce(msgs, text) ==
  IF msgs[Len(msgs)] = UserTurn(text) THEN msgs ELSE Append(msgs, UserTurn(text))

\* Variant: the reply is shown but not recorded.
AppendAssistantDropped(msgs, text) == msgs

\* line 187 / line 202
AppendUser(msgs, text) == Append(msgs, UserTurn(text))
AppendAssistant(msgs, text) == Append(msgs, AssistantTurn(text))

\* Variant: the failure is recorded as an assistant turn.
AfterFailureErrorTurn(msgs) == Append(msgs, AssistantTurn("error"))

\* line 194 raises: nothing in the script catches it, the run ends there and
\* session_state keeps what it held.
AfterFailure(msgs) == msgs

\* A new browser session of a new server process: nothing cached, nothing
\* in session_state, nothing rendered.
AppFresh ==
  /\ cache = <<>>
  /\ df = [none |-> TRUE, rows |-> <<>>]
  /\ runError = NoError
  /\ kpi = <<>>
  /\ selection = <<>>
  /\ optionsShown = <<>>
  /\ selected_interview = <<>>
  /\ chatShown = FALSE
  /\ prompt = <<>>
  /\ messages = <<>>
  /\ credFound = FALSE
  /\ fileRead = FALSE
  /\ nSuccess = 0
  /\ nFailure = 0
  /\ lastCall = "none"
  /\ callBase = <<>>
  /\ callInput = ""
  /\ attemptBase = <<>>
  /\ attemptFails = 0

\* A page load or a widget event starts a run of the whole script.
StartRun(p, sel) ==
  /\ pc' = "load"
  /\ prompt' = p
  /\ selection' = sel
  /\ runError' = NoError
  /\ kpi' = <<>>
  /\ selected_interview' = <<>>
  /\ optionsShown' = <<>>
  /\ chatShown' = FALSE
  /\ UNCHANGED <<cache, df, messages, credFound, fileRead, nSuccess, nFailure,
                 lastCall, callBase, callInput, attemptBase, attemptFails>>
  /\ UNCHANGED <<envvars, avars>>

\* The page is loaded or reloaded: st.chat_input returns None.
Rerun ==
  /\ pc = "idle"
  /\ StartRun(<<>>, selection)

\* The user picks one of the options the selectbox shows.
SelectInterview ==
  /\ pc = "idle"
  /\ \E i \in 1..Len(optionsShown) : StartRun(<<>>, <<optionsShown[i]>>)

\* The user submits text in the chat input the page shows.
SubmitChat ==
  /\ pc = "idle"
  /\ chatShown
  /\ Len(messages) + 2 <= MaxTurns
  /\ \E q \in UserInputs : StartRun(<<q>>, selection)

\* lines 17-28: df = load_data(); st.cache_data runs the body once and
\* serves the stored value (None included) afterwards.
LoadData ==
  /\ pc = "load"
  /\ IF cache = <<>>
     THEN /\ df' = load_data(analyzed_file)
          /\ cache' = <<load_data(analyzed_file)>>
          /\ fileRead' = (fileRead \/ analyzed_file.exists)
     ELSE /\ df' = cache[1]
          /\ UNCHANGED <<cache, fileRead>>
  /\ pc' = "cred"
  /\ UNCHANGED <<runError, kpi, selection, optionsShown, selected_interview,
                 chatShown, prompt, messages, credFound, nSuccess, nFailure,
                 lastCall, callBase, callInput, attemptBase, attemptFails>>
  /\ UNCHANGED <<envvars, avars>>

\* line 31: openai.api_key = st.secrets["OPENAI_API_KEY"]
CredentialSetup ==
  /\ pc = "cred"
  /\ secretPresent
  /\ credFound' = TRUE
  /\ pc' = "stop"
  /\ UNCHANGED <<cache, df, runError, kpi, selection, optionsShown,
                 selected_interview, chatShown, prompt, messages, fileRead,
                 nSuccess, nFailure, lastCall, callBase, callInput, attemptBase,
                 attemptFails>>
  /\ UNCHANGED <<envvars, avars>>

\* line 31 with no such secret: the lookup raises and the run ends.
CredentialMissing ==
  /\ pc = "cred"
  /\ ~secretPresent
  /\ runError' = Raised("KeyError", 31)
  /\ pc' = "idle"
  /\ UNCHANGED <<cache, df, kpi, selection, optionsShown, selected_interview,
                 chatShown, prompt, messages, credFound, fileRead, nSuccess,
                 nFailure, lastCall, callBase, callInput, attemptBase,
                 attemptFails>>
  /\ UNCHANGED <<envvars, avars>>

\* lines 34-35: if df is None: st.stop()
StopNoData ==
  /\ pc = "stop"
  /\ df.none
  /\ pc' = "idle"
  /\ UNCHANGED <<cache, df, runError, kpi, selection, optionsShown,
                 selected_interview, chatShown, prompt, messages, credFound,
                 fileRead, nSuccess, nFailure, lastCall, callBase, callInput,
                 attemptBase, attemptFails>>
  /\ UNCHANGED <<envvars, avars>>

\* The exception lines 49-56 raise on these rows, NoError if none.
Tab1Error(rows) ==
  IF ~HasSentimentColumn(rows) THEN Raised("KeyError", 51)
  ELSE IF Len(rows) = 0 THEN Raised("ZeroDivisionError", 52)
  ELSE IF ~HasThemesColumn(rows) THEN Raised("KeyError", 55)
  ELSE IF Explode(rows) = <<>> THEN Raised("ValueError", 55)
  ELSE NoError

\* lines 47-56: the three metrics (the charts of lines 61-97 keep no state).
Tab1KPIs ==
  /\ pc = "stop"
  /\ ~df.none
  /\ Tab1Error(df.rows) = NoError
  /\ kpi' = <<[total |-> Len(df.rows),
               negRate |-> neg_sentiment_perc(df.rows),
               topTheme |-> top_theme(Explode(df.rows))]>>
  /\ pc' = "tab2"
  /\ UNCHANGED <<cache, df, runError, selection, optionsShown,
                 selected_interview, chatShown, prompt, messages, credFound,
                 fileRead, nSuccess, nFailure, lastCall, callBase, callInput,
                 attemptBase, attemptFails>>
  /\ UNCHANGED <<envvars, avars>>

Tab1Raises ==
  /\ pc = "stop"
  /\ ~df.none
  /\ Tab1Error(df.rows) # NoError
  /\ runError' = Tab1Error(df.rows)
  /\ pc' = "idle"
  /\ UNCHANGED <<cache, df, kpi, selection, optionsShown, selected_interview,
                 chatShown, prompt, messages, credFound, fileRead, nSuccess,
                 nFailure, lastCall, callBase, callInput, attemptBase,
                 attemptFails>>
  /\ UNCHANGED <<envvars, avars>>

\* The exception lines 109-142 raise for the chosen option, NoError if none.
Tab2Error(rows, shown) ==
  IF LookupFirst(rows, shown) = <<>> THEN Raised("IndexError", 109)
  ELSE IF LookupFirst(rows, shown)[1].analysis_keyThemes = <<>>
       THEN Raised("TypeError", 135)
  ELSE IF ~HasSummaryColumn(rows) THEN Raised("KeyError", 138)
  ELSE NoError

\* lines 103-142: the selectbox and the details of the chosen interview.
Tab2Individual ==
  /\ pc = "tab2"
  /\ LET shown == selectbox(Options(df.rows), selection) IN
       /\ selection' = shown
       /\ optionsShown' = Options(df.rows)
       /\ IF Tab2Error(df.rows, shown) = NoError
          THEN /\ selected_interview' = LookupFirst(df.rows, shown)
               /\ pc' = "tab3"
               /\ UNCHANGED runError
          ELSE /\ selected_interview' = <<>>
               /\ pc' = "idle"
               /\ runError' = Tab2Error(df.rows, shown)
  /\ UNCHANGED <<cache, df, kpi, chatShown, prompt, messages, credFound,
                 fileRead, nSuccess, nFailure, lastCall, callBase, callInput,
                 attemptBase, attemptFails>>
  /\ UNCHANGED <<envvars, avars>>

\* lines 152-185: build SYSTEM_PROMPT, create the history if the session has
\* none, show it and the chat input; the script ends here when the input
\* returned None.
Tab3History ==
  /\ pc = "tab3"
  /\ messages' = IF NeedsInit(messages) THEN InitialMessages(df.rows)
                 ELSE messages
  /\ chatShown' = TRUE
  /\ pc' = IF prompt = <<>> THEN "idle" ELSE "user"
  /\ UNCHANGED <<cache, df, runError, kpi, selection, optionsShown,
                 selected_interview, prompt, credFound, fileRead, nSuccess,
                 nFailure, lastCall, callBase, callInput, attemptBase,
                 attemptFails>>
  /\ UNCHANGED <<envvars, avars>>

\* lines 185-189: the submitted text becomes a user turn.
ChatAppendUser ==
  /\ pc = "user"
  /\ messages' = AppendUser(messages, prompt[1])
  /\ lastCall' = "pending"
  /\ callBase' = messages
  /\ callInput' = prompt[1]
  /\ IF lastCall = "failure" /\ callInput = prompt[1]
     THEN UNCHANGED <<attemptBase, attemptFails>>
     ELSE attemptBase' = messages /\ attemptFails' = 0
  /\ pc' = "completion"
  /\ UNCHANGED <<cache, df, runError, kpi, selection, optionsShown,
                 selected_interview, chatShown, prompt, credFound, fileRead,
                 nSuccess, nFailure>>
  /\ UNCHANGED <<envvars, avars>>

\* lines 192-202: the completion arrives and becomes an assistant turn.
ChatCompletionSuccess ==
  /\ pc = "completion"
  /\ \E response_content \in Replies :
       messages' = AppendAssistant(messages, response_content)
  /\ nSuccess' = nSuccess + 1
  /\ lastCall' = "success"
  /\ prompt' = <<>>
  /\ pc' = "idle"
  /\ UNCHANGED <<cache, df, runError, kpi, selection, optionsShown,
                 selected_interview, chatShown, credFound, fileRead, nFailure,
                 callBase, callInput, attemptBase, attemptFails>>
  /\ UNCHANGED <<envvars, avars>>

\* line 194 raises.
ChatCompletionFailure ==
  /\ pc = "completion"
  /\ messages' = AfterFailure(messages)
  /\ nFailure' = nFailure + 1
  /\ attemptFails' = attemptFails + 1
  /\ lastCall' = "failure"
  /\ runError' = Raised("APIError", 194)
  /\ prompt' = <<>>
  /\ pc' = "idle"
  /\ UNCHANGED <<cache, df, kpi, selection, optionsShown, selected_interview,
                 chatShown, credFound, fileRead, nSuccess, callBase, callInput,
                 attemptBase>>
  /\ UNCHANGED <<envvars, avars>>

\* ------------------------------------------------------- the specification
\* One of the two programs is launched: the Analyzer on some data.json, or
\* the app on whatever an earlier Analyzer run left (or did not leave).
AnalyzerLaunch ==
  /\ stBound \in BOOLEAN
  /\ secretPresent \in BOOLEAN
  /\ data_json \in SeqsUpTo(SampleInterviews, MaxInterviews)
  /\ analyzed_file = NoFile
  /\ apc = "module"
  /\ AnalyzerFresh
  /\ pc = "off"
  /\ AppFresh

AppLaunch ==
  /\ stBound = FALSE
  /\ secretPresent \in BOOLEAN
  /\ data_json = <<>>
  /\ analyzed_file \in AnalyzedFiles
  /\ apc = "off"
  /\ AnalyzerFresh
  /\ pc = "idle"
  /\ AppFresh

Init == AnalyzerLaunch \/ AppLaunch

Next ==
  \/ ModuleSetupNameError
  \/ ModuleSetupKeyError
  \/ ModuleSetup
  \/ MainLoad
  \/ MainSkipEmpty
  \/ MainAnalyze
  \/ MainDump
  \/ Rerun
  \/ SelectInterview
  \/ SubmitChat
  \/ LoadData
  \/ CredentialSetup
  \/ CredentialMissing
  \/ StopNoData
  \/ Tab1KPIs
  \/ Tab1Raises
  \/ Tab2Individual
  \/ Tab3History
  \/ ChatAppendUser
  \/ ChatCompletionSuccess
  \/ ChatCompletionFailure

Spec == Init /\ [][Next]_vars

\* ------------------------------------------------------------- properties
IsPrefix(s, t) == Len(s) <= Len(t) /\ SubSeq(t, 1, Len(s)) = s

\* The RawInterview fields of an enriched record.
SourceOf(rec) ==
  [employeeID |-> rec.employeeID,
   employeeName |-> rec.employeeName,
   designation |-> rec.designation,
   department |-> rec.department,
   exitReason |-> rec.exitReason,
   interviewTranscript |-> rec.interviewTranscript]

\* s can be obtained from t by deleting elements.
RECURSIVE IsSubseq(_, _)
IsSubseq(s, t) ==
  IF s = <<>> THEN TRUE
  ELSE IF t = <<>> THEN FALSE
  ELSE IF Head(s) = Head(t) THEN IsSubseq(Tail(s), Tail(t))
  ELSE IsSubseq(s, Tail(t))

Sources(out) == [i \in 1..Len(out) |-> SourceOf(out[i])]

\* No converse call is between its user turn and its outcome.
BetweenCalls == messages # <<>> /\ lastCall # "pending"

\* C1 as stated: in a session without a failed converse call the history
\* holds 1 + 2k turns after the k-th call (1 turn in a fresh session).
C1_LengthOnePlus2k ==
  (BetweenCalls /\ nFailure = 0) => Len(messages) = 1 + 2 * nSuccess

\* C1 amended: in a session without a failed converse call the history holds
\* 2 + 2k turns after the k-th call: the system turn, the assistant greeting
\* the session starts with, and a user and an assistant turn per call.
C1_LengthTwoPlus2k ==
  (BetweenCalls /\ nFailure = 0) => Len(messages) = 2 + 2 * nSuccess

C1_Witness ==
  pc = "idle" /\ nFailure = 0 /\ nSuccess = 2 /\ lastCall = "success"

\* C2: after a failed completion call the history is the history the call
\* started from plus one turn, the user turn carrying the submitted text.
C2_FailureKeepsUserTurnOnly ==
  lastCall = "failure" =>
    /\ Len(messages) = Len(callBase) + 1
    /\ SubSeq(messages, 1, Len(callBase)) = callBase
    /\ messages[Len(messages)].role = "user"
    /\ messages[Len(messages)].content.text = callInput

C2_Witness ==
  pc = "idle" /\ lastCall = "failure" /\ nSuccess >= 1 /\ Len(callBase) >= 4

\* C3 as stated: with the credential configured, no exception ends the
\* Analyzer, and a finished run has written input length minus empty
\* transcripts minus failed extractions records.
C3_RunCompletesWithCount ==
  /\ (apc # "off" /\ secretPresent) => aerror = ""
  /\ apc = "done" =>
       Len(analyzed_file.data) = Len(data_json) - nEmpty - nFailed

\* C4 as stated: every record the Analyzer keeps or writes has
\* analysis.overallSentiment in {Positive, Negative, Neutral, Mixed}.
C4_SentimentInEnumeration ==
  apc # "off" =>
    /\ \A i \in 1..Len(analyzed_interviews) :
         \E v \in Sentiments :
           analyzed_interviews[i].analysis.overallSentiment = <<v>>
    /\ \A i \in 1..Len(analyzed_file.data) :
         \E v \in Sentiments :
           analyzed_file.data[i].analysis.overallSentiment = <<v>>

\* C5 as stated: either program reads its data file only after its
\* credential lookup has found the credential.
C5_DataReadOnlyAfterCredential ==
  /\ aDataRead => aCredFound
  /\ fileRead => credFound

\* C6 as stated: a record is rendered only when exactly one row of the
\* corpus matches the chosen name + identifier.
C6_LookupResolvesUniquely ==
  selected_interview # <<>> =>
    Cardinality(Matches(df.rows, selection)) = 1

\* C7 as stated: on an empty corpus the KPI block raises nothing (the rate
\* is reported as undefined instead).
C7_EmptyCorpusGuarded ==
  (~df.none /\ df.rows = <<>>) => runError.line \notin 49..56

\* C8: the history only ever grows at its end, and its first turn is the
\* system turn holding the context prompt of the corpus loaded for the session.
C8_AppendOnly ==
  /\ [][IsPrefix(messages, messages')]_vars
  /\ [](messages # <<>> =>
          /\ messages[1].role = "system"
          /\ messages[1].content.data =
               [i \in 1..Len(cache[1].rows) |->
                  <<display_name(cache[1].rows[i]), cache[1].rows[i]>>]
          /\ \A i \in 2..Len(messages) : messages[i].role # "system")

C8_Witness ==
  pc = "idle" /\ nSuccess >= 1 /\ nFailure >= 1 /\ Len(messages) = MaxTurns

\* C9 as stated: when a call succeeds after failed attempts with the same
\* input, the history is what a first-attempt success would have left: the
\* history before the first attempt, the input once, one assistant turn.
C9_RetryIdempotent ==
  lastCall = "success" =>
    /\ Len(messages) = Len(attemptBase) + 2
    /\ SubSeq(messages, 1, Len(attemptBase)) = attemptBase
    /\ messages[Len(messages) - 1] = UserTurn(callInput)
    /\ messages[Len(messages)].role = "assistant"

\* C9 amended: when a call succeeds after f failed attempts with the same
\* input, the history is the history before the first attempt, f + 1 user
\* turns carrying the input, and one assistant turn.
C9_RetryRepeatsUserTurn ==
  lastCall = "success" =>
    /\ Len(messages) = Len(attemptBase) + attemptFails + 2
    /\ SubSeq(messages, 1, Len(attemptBase)) = attemptBase
    /\ \A i \in (Len(attemptBase) + 1)..(Len(messages) - 1) :
         messages[i] = UserTurn(callInput)
    /\ messages[Len(messages)].role = "assistant"

C9_Witness ==
  pc = "idle" /\ lastCall = "success" /\ attemptFails = 2

\* C10: the interviews behind the kept records are a subsequence of the
\* interviews read so far, every kept record holds its interview's fields
\* unchanged beside a non-empty analysis, and the file written is that list.
C10_OrderPreserving ==
  /\ apc \in {"loop", "done"} =>
       /\ IsSubseq(Sources(analyzed_interviews),
                   SubSeq(interviews_data, 1, idx - 1))
       /\ \A i \in 1..Len(analyzed_interviews) :
            analyzed_interviews[i].analysis \in SampleObjects \ {EmptyObject}
  /\ apc = "done" =>
       /\ analyzed_file.data = analyzed_interviews
       /\ IsSubseq(Sources(analyzed_file.data), data_json)

C10_Witness ==
  /\ apc = "done"
  /\ Len(data_json) = 3
  /\ Len(analyzed_file.data) = 2
  /\ SourceOf(analyzed_file.data[1]) = data_json[1]
  /\ SourceOf(analyzed_file.data[2]) = data_json[3]
  /\ data_json[1] # data_json[3]
  /\ nFailed = 1

====
